---- MODULE Spec2Model ----
(***************************************************************************)
(* Multi-source search aggregation of MoonTVPlus.                          *)
(*                                                                         *)
(*   batch handler     src/src/app/api/search/route.ts     (lines 1-293)   *)
(*   streaming handler src/src/app/api/search/ws/route.ts  (lines 1-455)   *)
(*   batch handler, Promise.allSettled snapshot of the same file           *)
(*                     src/src/app/api/search/route.ts   (lines 295-586)   *)
(*                                                                         *)
(* JavaScript runs every synchronous stretch of code to completion, so one *)
(* action is one such stretch: from a call or a resumed await up to the    *)
(* next await or return.                                                   *)
(***************************************************************************)
EXTENDS Integers, Sequences, FiniteSets, TLC

\* ---------------------------------------------------------------- bounds
MaxTasks == 3
MaxLimit == 3
MaxItems == 2
MaxWeight == 1
MaxStreamSources == 3
MaxWordLen == 3
MaxKeywords == 2
MaxSites == 6
MaxInstances == 4
MaxMergeSources == 2
MaxFolders == 502

\* ------------------------------------------------------- program constants
MAX_CONCURRENT == 3
MAX_RESULTS_PER_SOURCE == 30
WS_MAX_CONCURRENT == 3
WS_MAX_RESULTS_PER_SOURCE == 20
MAX_CONCURRENT_API_SITES == 5
MAX_CONCURRENT_EMBY_SOURCES == 3
MAX_FOLDERS_TO_SEARCH == 500

VARIABLES
  \* ---- batch handler and runWithConcurrencyControl
  mode,                 \* "generic": the scheduler on arbitrary tasks; "GET": the handler's tasks
  kind,                 \* kind[i] of task i: "raw" | "openlist" | "emby" | "api"
  beh,                  \* what task i's operation does: "ok" | "throw" | "hang"
  limit,                \* the scheduler's limit argument
  weightMap,            \* weight of API site j (config.SourceConfig)
  disableYellowFilter,  \* config.SiteConfig.DisableYellowFilter
  task,                 \* task[i]: "idle" | "running" | "resolved" | "rejected"
  taskValue,            \* what task i resolved with
  startCount,           \* how often tasks[i]() was called
  frames,               \* the suspended invocations of startNext, outermost first
  mainPc,               \* position of runWithConcurrencyControl's own body
  running, completed, index,
  results,              \* the scheduler's results array
  progress,             \* the values of `completed` handed to onProgress
  returned,             \* what the scheduler returned
  response,             \* the handler's response
  \* ---- streaming handler
  nApi,                 \* sortedApiSites.length
  hasOpenList,          \* config.OpenListConfig complete
  hasEmby,              \* config.EmbyConfig has an enabled source with a ServerURL
  embyClients,          \* how many clients embyManager.getAllClients() yields
  hsPc,                 \* position of start(controller)
  embySources,          \* embySources.length
  totalSources,
  streamClosed,
  cancelled,            \* cancel() has run
  ctrl,                 \* the controller's stream: "open" | "closed" | "errored"
  events,               \* the events enqueued, in order
  writeLog,             \* what each call of safeEnqueue returned, in order
  enqueueCalls,         \* calls of controller.enqueue
  completedSources,
  failedSources,        \* the sources whose search threw or timed out
  allResults,           \* allResults.length
  timeExceeded,         \* Date.now() - startTime > MAX_TOTAL_TIME_MS
  embyStat, apiStat,    \* per pool task: "idle" | "queued" | "running" | "settled"
  olStat,               \* the OpenList search: "idle" | "running" | "settled"
  poolPc,               \* per pool: "idle" | "race" | "allSettled" | "done"
  \* ---- both handlers, from the request to the task list or the stream
  handler,              \* "batch": route.ts GET; "stream": ws/route.ts GET
  principal,            \* getAuthInfoFromCookie: "none" | "nouser" | "user"
  query,                \* searchParams.get('q'): "missing" | "empty" | "text"
  throwsAt,             \* the collaborator call that rejects, or "none"
  reqPc,                \* position of GET
  work,                 \* the collaborator calls made and things created, in order
  reqResponse,          \* what GET returned
  \* ---- generateSuggestions
  sgQuery,              \* query
  realKeywords,         \* the words kept from the titles of the quick search
  sgPc,                 \* "call" | "returned"
  suggestions,          \* what generateSuggestions returned
  \* ---- from the configuration to the answer, scheduling left aside
  variant,              \* "pool": route.ts 81-293; "allSettled": route.ts 315-586;
                        \* "stream": ws/route.ts
  openListConfig,       \* which of Enabled, URL, Username, Password are set
  availableSites,       \* how many sites getAvailableApiSites() yields
  embyInstances,        \* how many clients embyManager.getAllClients() yields
  fanPc,                \* "enumerate" | "search" | "merge" | "done"
  searchTasks,          \* the kind of each source that is searched, in order
  pages,                \* pages[i]: how many items the backend of source i sends
  allSourceResults,     \* what each source hands on: a task's batch, an event's results
  collected,            \* allSettled: the groups pushed before the deadline passed
  merged,               \* the results of the batch response
  \* ---- the scan of the OpenList index
  folderEntriesLength,  \* folderEntries.length
  matchEvery,           \* every matchEvery-th entry matches the query; 0: none does
  examined,             \* how many entries the loop has tested against the query
  scanResults,          \* results.length
  scanPc                \* "loop" | "returned"

batchVars == <<mode, kind, beh, limit, weightMap, disableYellowFilter, task,
               taskValue, startCount, frames, mainPc, running, completed,
               index, results, progress, returned, response>>

streamVars == <<nApi, hasOpenList, hasEmby, embyClients, hsPc, embySources,
                totalSources, streamClosed, cancelled, ctrl, events, writeLog,
                enqueueCalls, completedSources, failedSources, allResults, timeExceeded,
                embyStat, apiStat, olStat, poolPc>>

reqVars == <<handler, principal, query, throwsAt, reqPc, work, reqResponse>>

sugVars == <<sgQuery, realKeywords, sgPc, suggestions>>

fanVars == <<variant, openListConfig, availableSites, embyInstances, fanPc,
             searchTasks, pages, allSourceResults, collected, merged>>

scanVars == <<folderEntriesLength, matchEvery, examined, scanResults, scanPc>>

vars == <<batchVars, streamVars, reqVars, sugVars, fanVars, scanVars>>

total == Len(kind)
Tasks == 1..total

Min(a, b) == IF a < b THEN a ELSE b

\* ----------------------------------------------------------- source keys
\* Position of task i among the tasks of its own kind.
SrcIdx(i) == Cardinality({k \in 1..i : kind[k] = kind[i]})
NumOfKind(kd) == Cardinality({k \in Tasks : kind[k] = kd})

\* route.ts:204  allEmbySources.length === 1 ? 'emby' : `emby_${embyConfig.key}`
EmbySourceValue(j, n) == IF n = 1 THEN <<"emby">> ELSE <<"emby", j>>

\* type_name of the k-th item a content API returns: every second one carries
\* a blocked word.
IsYellow(k) == k % 2 = 0

Item(src, k) == [source |-> src, id |-> k, yellow |-> FALSE]
ApiItem(src, k) == [source |-> src, id |-> k, yellow |-> IsYellow(k)]

\* route.ts:239-244
YellowFilterOff(items) == items
YellowFilter(items) ==
  IF disableYellowFilter THEN items
  ELSE SelectSeq(items, LAMBDA r : ~r.yellow)

Batch(src, items) == [source |-> src, results |-> items]

\* route.ts:137-185: the OpenList task; the scan stops at MAX_RESULTS_PER_SOURCE matches.
OpenListTask(ok, n) ==
  IF ok
  THEN Batch(<<"openlist">>, [k \in 1..Min(n, MAX_RESULTS_PER_SOURCE) |-> Item(<<"openlist">>, k)])
  ELSE Batch(<<"openlist">>, <<>>)

\* route.ts:190-226: an Emby task; the catch answers with source 'emby'.
EmbyTask(j, n, ok, cnt) ==
  IF ok
  THEN Batch(EmbySourceValue(j, cnt), [k \in 1..n |-> Item(EmbySourceValue(j, cnt), k)])
  ELSE Batch(<<"emby">>, <<>>)

\* route.ts:231-251: a content-API task.
ApiTask(j, n, ok) ==
  IF ok
  THEN Batch(<<"api", j>>, YellowFilter([k \in 1..n |-> ApiItem(<<"api", j>>, k)]))
  ELSE Batch(<<"api", j>>, <<>>)

\* route.ts:68-79 withTimeout: which task kinds race their operation against a timer.
\* Emby (192) and API (233) tasks do; the OpenList task (137-185) does not.
HasTimeout(kd) == kd \in {"emby", "api"}

\* ------------------------------------------------- runWithConcurrencyControl
\* route.ts:35  while (running < limit && index < total)
CanStartNoIndexCheck(r, l, ix, tot) == r < l /\ ix < tot - 1
CanStart(r, l, ix, tot) == r < l /\ ix < tot

\* route.ts:41  `await task()`: the invocation is suspended until the task settles.
NoAwait == "settled"
AfterTaskCall == "awaitTask"

\* route.ts:62  results.filter(r => r !== undefined)
Hole == [tag |-> "hole"]
Undefined == [tag |-> "undefined"]
FilterUndefinedKeepsAll(res) == res
FilterUndefinedReversed(res) ==
  LET kept == SelectSeq(res, LAMBDA r : r \notin {Undefined, Hole})
  IN [k \in 1..Len(kept) |-> kept[Len(kept) + 1 - k]]
FilterUndefined(res) == SelectSeq(res, LAMBDA r : r \notin {Undefined, Hole})

\* A call of startNext, or its loop coming round again, with `r` running:
\* either tasks[index]() is called and the invocation suspends at line 41,
\* or the loop is left and the invocation returns.
StartTaskSameIndex(ti) ==
  /\ index' = index
  /\ task' = [task EXCEPT ![ti] = "running"]
  /\ startCount' = [startCount EXCEPT ![ti] = @ + 1]

\* route.ts:36-41  const taskIndex = index++; ... task()
StartTask(ti) ==
  /\ index' = index + 1
  /\ task' = [task EXCEPT ![ti] = "running"]
  /\ startCount' = [startCount EXCEPT ![ti] = @ + 1]

\* route.ts:55 / 59  await startNext()  from the scheduler's own body
MainCallStartNext ==
  /\ mainPc \in {"start", "sleep"}
  /\ IF CanStart(running, limit, index, total)
     THEN /\ StartTask(index + 1)
          /\ running' = running + 1
          /\ frames' = Append(frames, [ti |-> index + 1, pc |-> AfterTaskCall])
          /\ mainPc' = "await"
     ELSE /\ mainPc' = "check"
          /\ UNCHANGED <<index, task, startCount, running, frames>>
  /\ UNCHANGED <<mode, kind, beh, limit, weightMap, disableYellowFilter,
                 taskValue, completed, results, progress, returned, response, streamVars, reqVars, sugVars, fanVars, scanVars>>

\* The operation of a running task settles (or its timeout fires).
TaskSettle(i) ==
  /\ i \in Tasks
  /\ task[i] = "running"
  /\ \/ /\ kind[i] = "raw" /\ beh[i] = "ok"
        /\ task' = [task EXCEPT ![i] = "resolved"]
        /\ taskValue' = [taskValue EXCEPT ![i] = [value |-> i]]
     \/ /\ kind[i] = "raw" /\ beh[i] = "throw"
        /\ task' = [task EXCEPT ![i] = "rejected"]
        /\ UNCHANGED taskValue
     \/ /\ kind[i] = "openlist" /\ beh[i] # "hang"
        /\ task' = [task EXCEPT ![i] = "resolved"]
        /\ \E n \in 0..MaxItems :
             taskValue' = [taskValue EXCEPT ![i] = OpenListTask(beh[i] = "ok", n)]
     \/ /\ kind[i] = "emby" /\ (beh[i] # "hang" \/ HasTimeout("emby"))
        /\ task' = [task EXCEPT ![i] = "resolved"]
        /\ \E n \in 0..MaxItems :
             taskValue' = [taskValue EXCEPT ![i] =
                             EmbyTask(SrcIdx(i), n, beh[i] = "ok", NumOfKind("emby"))]
     \/ /\ kind[i] = "api" /\ (beh[i] # "hang" \/ HasTimeout("api"))
        /\ task' = [task EXCEPT ![i] = "resolved"]
        /\ \E n \in 0..MaxItems :
             taskValue' = [taskValue EXCEPT ![i] = ApiTask(SrcIdx(i), n, beh[i] = "ok")]
  /\ frames' = [k \in 1..Len(frames) |->
                  IF frames[k].ti = i /\ frames[k].pc = "awaitTask"
                  THEN [frames[k] EXCEPT !.pc = "settled"]
                  ELSE frames[k]]
  /\ UNCHANGED <<mode, kind, beh, limit, weightMap, disableYellowFilter,
                 startCount, mainPc, running, completed, index, results,
                 progress, returned, response, streamVars, reqVars, sugVars, fanVars, scanVars>>

\* route.ts:48-49  completed++; onProgress?.(completed, total), with c the
\* value of `completed` after the increment
OnProgressBeforeIncrement(log, c) == Append(log, c - 1)
OnProgress(log, c) == Append(log, c)

\* route.ts:42-50: the invocation resumes after `await task()`: it stores the
\* result, runs the finally block and calls startNext again.
FrameContinue ==
  /\ frames # <<>>
  /\ LET d == Len(frames)
         f == frames[d]
         r == running - 1
     IN
     /\ f.pc = "settled"
     /\ results' = [results EXCEPT ![f.ti] =
                      IF task[f.ti] = "resolved" THEN taskValue[f.ti] ELSE Undefined]
     /\ completed' = completed + 1
     /\ progress' = OnProgress(progress, completed + 1)
     /\ IF CanStart(r, limit, index, total)
        THEN /\ StartTask(index + 1)
             /\ running' = r + 1
             /\ frames' = Append([frames EXCEPT ![d].pc = "awaitNested"],
                                 [ti |-> index + 1, pc |-> AfterTaskCall])
        ELSE /\ running' = r
             /\ frames' = [frames EXCEPT ![d].pc = "nestedDone"]
             /\ UNCHANGED <<index, task, startCount>>
  /\ UNCHANGED <<mode, kind, beh, limit, weightMap, disableYellowFilter,
                 taskValue, mainPc, returned, response, streamVars, reqVars, sugVars, fanVars, scanVars>>

\* route.ts:50 -> 35: the nested startNext has returned; the loop tests its
\* condition again and either starts a task in this invocation or returns.
FrameLoopBack ==
  /\ frames # <<>>
  /\ LET d == Len(frames)
         f == frames[d]
     IN
     /\ f.pc = "nestedDone"
     /\ IF CanStart(running, limit, index, total)
        THEN /\ StartTask(index + 1)
             /\ running' = running + 1
             /\ frames' = [frames EXCEPT ![d] = [ti |-> index + 1, pc |-> AfterTaskCall]]
             /\ UNCHANGED mainPc
        ELSE /\ frames' = IF d = 1 THEN <<>>
                          ELSE [SubSeq(frames, 1, d - 1) EXCEPT ![d - 1].pc = "nestedDone"]
             /\ mainPc' = IF d = 1 THEN "check" ELSE mainPc
             /\ UNCHANGED <<index, task, startCount, running>>
  /\ UNCHANGED <<mode, kind, beh, limit, weightMap, disableYellowFilter,
                 taskValue, completed, results, progress, returned, response, streamVars, reqVars, sugVars, fanVars, scanVars>>

\* route.ts:57  while (completed < total)
StillWaitingNever(c, tot) == FALSE
StillWaiting(c, tot) == c < tot

\* route.ts:57-58  while (completed < total) { await sleep(10) ...
MainPoll ==
  /\ mainPc = "check"
  /\ StillWaiting(completed, total)
  /\ mainPc' = "sleep"
  /\ UNCHANGED <<mode, kind, beh, limit, weightMap, disableYellowFilter, task,
                 taskValue, startCount, frames, running, completed, index,
                 results, progress, returned, response, streamVars, reqVars, sugVars, fanVars, scanVars>>

\* route.ts:57, 62  the loop is left and the filtered results are returned
MainReturn ==
  /\ mainPc = "check"
  /\ ~StillWaiting(completed, total)
  /\ mainPc' = "returned"
  /\ returned' = FilterUndefined(results)
  /\ UNCHANGED <<mode, kind, beh, limit, weightMap, disableYellowFilter, task,
                 taskValue, startCount, frames, running, completed, index,
                 results, progress, response, streamVars, reqVars, sugVars, fanVars, scanVars>>

\* ------------------------------------------------------------ the merger
\* route.ts:271-272  weightMap.get(a.source) ?? 0
WeightOf(item) ==
  IF item.source[1] = "api" /\ item.source[2] \in DOMAIN weightMap
  THEN weightMap[item.source[2]]
  ELSE 0

\* route.ts:270-274  the comparator: weightB - weightA
CompareAscending(a, b) == WeightOf(a) - WeightOf(b)
Compare(a, b) == WeightOf(b) - WeightOf(a)

\* Array.prototype.sort is a stable sort (ECMAScript 2019, 23.1.3.30): s[i]
\* comes behind the elements the comparator puts before it and behind those
\* it ties with that stood before it. SortRank is its place in the result.
SortRank(s, i) ==
  Cardinality({j \in 1..Len(s) :
                 LET c == Compare(s[j], s[i]) IN c < 0 \/ (c = 0 /\ j <= i)})

SortByWeight(s) ==
  LET rank == [i \in 1..Len(s) |-> SortRank(s, i)]
  IN [p \in 1..Len(s) |-> s[CHOOSE i \in 1..Len(s) : rank[i] = p]]

RECURSIVE FlattenStopAtEmpty(_)
FlattenStopAtEmpty(batches) ==
  IF batches = <<>> \/ batches[1].results = <<>> THEN <<>>
  ELSE batches[1].results \o FlattenStopAtEmpty(Tail(batches))

\* route.ts:268  allSourceResults.flatMap(r => r.results)
RECURSIVE Flatten(_)
Flatten(batches) ==
  IF batches = <<>> THEN <<>>
  ELSE batches[1].results \o Flatten(Tail(batches))

NoResponse == [status |-> 0, results |-> <<>>]

\* route.ts:256-288: the scheduler has returned; flatten, sort, respond.
GetRespond ==
  /\ mode = "GET"
  /\ mainPc = "returned"
  /\ response = NoResponse
  /\ response' = [status |-> 200, results |-> SortByWeight(Flatten(returned))]
  /\ UNCHANGED <<mode, kind, beh, limit, weightMap, disableYellowFilter, task,
                 taskValue, startCount, frames, mainPc, running, completed,
                 index, results, progress, returned, streamVars, reqVars, sugVars, fanVars, scanVars>>

OpenListFields == {"Enabled", "URL", "Username", "Password"}

\* No index is scanned.
ScanIdle ==
  /\ folderEntriesLength = 0
  /\ matchEvery = 0
  /\ examined = 0
  /\ scanResults = 0
  /\ scanPc = "off"

\* The way from the configuration to the answer is not looked at.
FanIdle ==
  /\ variant = "off"
  /\ openListConfig = [f \in OpenListFields |-> FALSE]
  /\ availableSites = 0
  /\ embyInstances = 0
  /\ fanPc = "off"
  /\ searchTasks = <<>>
  /\ pages = <<>>
  /\ allSourceResults = <<>>
  /\ collected = 0
  /\ merged = <<>>
  /\ ScanIdle

\* generateSuggestions is not called.
SugIdle ==
  /\ sgQuery = <<>>
  /\ realKeywords = <<>>
  /\ sgPc = "off"
  /\ suggestions = <<>>

NoReqResponse == [status |-> 0, body |-> "none"]

\* The request already answered the checks of GET's first lines: the part
\* of GET before the task list or the stream is not looked at.
ReqIdle ==
  /\ handler = "off"
  /\ principal = "user"
  /\ query = "text"
  /\ throwsAt = "none"
  /\ reqPc = "off"
  /\ work = <<>>
  /\ reqResponse = NoReqResponse
  /\ SugIdle
  /\ FanIdle

\* The streaming handler at rest, while the batch handler is looked at.
StreamIdle ==
  /\ nApi = 0
  /\ hasOpenList = FALSE
  /\ hasEmby = FALSE
  /\ embyClients = 0
  /\ hsPc = "off"
  /\ embySources = 0
  /\ totalSources = 0
  /\ streamClosed = FALSE
  /\ cancelled = FALSE
  /\ ctrl = "open"
  /\ events = <<>>
  /\ writeLog = <<>>
  /\ enqueueCalls = 0
  /\ completedSources = 0
  /\ failedSources = {}
  /\ allResults = 0
  /\ timeExceeded = FALSE
  /\ embyStat = <<>>
  /\ apiStat = <<>>
  /\ olStat = "idle"
  /\ poolPc = [emby |-> "idle", api |-> "idle"]

\* ------------------------------------------------------------------ Init
\* route.ts:133-252: OpenList first, then the Emby sources, then the API sites.
TaskKinds(ol, ne, na) ==
  [i \in 1..((IF ol THEN 1 ELSE 0) + ne + na) |->
     IF ol /\ i = 1 THEN "openlist"
     ELSE IF i <= (IF ol THEN 1 ELSE 0) + ne THEN "emby"
     ELSE "api"]

InitBatch ==
  /\ mode \in {"generic", "GET"}
  /\ \/ /\ mode = "generic"
        /\ \E n \in 0..MaxTasks : kind = [i \in 1..n |-> "raw"]
        /\ limit \in 0..MaxLimit
        /\ weightMap = <<>>
        /\ disableYellowFilter = FALSE
     \/ /\ mode = "GET"
        /\ \E ol \in BOOLEAN, ne \in 0..MaxTasks, na \in 0..MaxTasks :
             /\ (IF ol THEN 1 ELSE 0) + ne + na <= MaxTasks
             /\ kind = TaskKinds(ol, ne, na)
             /\ weightMap \in [1..na -> 0..MaxWeight]
        /\ limit = MAX_CONCURRENT
        /\ disableYellowFilter \in BOOLEAN
  /\ beh \in [1..Len(kind) -> {"ok", "throw", "hang"}]
  /\ task = [i \in 1..Len(kind) |-> "idle"]
  /\ taskValue = [i \in 1..Len(kind) |-> Hole]
  /\ startCount = [i \in 1..Len(kind) |-> 0]
  /\ frames = <<>>
  /\ mainPc = "start"
  /\ running = 0
  /\ completed = 0
  /\ index = 0
  /\ results = [i \in 1..Len(kind) |-> Hole]
  /\ progress = <<>>
  /\ returned = <<>>
  /\ response = NoResponse
  /\ StreamIdle
  /\ ReqIdle

NextBatch ==
  \/ MainCallStartNext
  \/ \E i \in Tasks : TaskSettle(i)
  \/ FrameContinue
  \/ FrameLoopBack
  \/ MainPoll
  \/ MainReturn
  \/ GetRespond

SpecBatch == InitBatch /\ [][NextBatch]_vars

\* =========================================================================
\* The streaming handler, ws/route.ts
\* =========================================================================
\* What a backend that answers sends to the streaming handler: a page of MaxItems items.
BackendItems == MaxItems

EmbyIds == 1..Len(embyStat)
ApiIds == 1..Len(apiStat)

StartEvent(n) == [type |-> "start", source |-> <<>>, n |-> n]
ResultEvent(src, n) == [type |-> "source_result", source |-> src, n |-> n]
ErrorEvent(src) == [type |-> "source_error", source |-> src, n |-> 0]
CompleteEvent(n) == [type |-> "complete", source |-> <<>>, n |-> n]

\* ws/route.ts:85  streamClosed || (!controller.desiredSize && controller.desiredSize !== 0)
\* desiredSize is null on an errored stream and a number otherwise.
WriteRefusedFlagIgnored(closed) == ctrl = "errored"
WriteRefused(closed) == closed \/ ctrl = "errored"

\* ws/route.ts:83-95 safeEnqueue, on the writer state w = [closed, events, calls]:
\* controller.enqueue throws once the stream is closed or cancelled.
SafeEnqueue(w, ev) ==
  IF WriteRefused(w.closed)
  THEN [w EXCEPT !.ok = FALSE, !.log = Append(@, FALSE)]
  ELSE IF ctrl = "closed"
  THEN [closed |-> TRUE, events |-> w.events, calls |-> w.calls + 1, ok |-> FALSE,
        log |-> Append(w.log, FALSE)]
  ELSE [closed |-> w.closed, events |-> Append(w.events, ev), calls |-> w.calls + 1, ok |-> TRUE,
        log |-> Append(w.log, TRUE)]

Writer ==
  [closed |-> streamClosed, events |-> events, calls |-> enqueueCalls, ok |-> TRUE,
   log |-> writeLog]

SetWriter(w) ==
  /\ streamClosed' = w.closed
  /\ events' = w.events
  /\ enqueueCalls' = w.calls
  /\ writeLog' = w.log

\* ws/route.ts:136-164 runWithConcurrencyLimit, from its call to its first await:
\* the loop pushes a promise per task and waits on Promise.race once `lim`
\* are in the list; n tasks in all.
PoolPushed(n, lim) == IF n >= lim THEN lim ELSE n
PoolPcAfterLaunch(n, lim) == IF n >= lim THEN "race" ELSE "allSettled"
PoolLaunchStat(n, lim) == [j \in 1..n |-> IF j <= PoolPushed(n, lim) THEN "queued" ELSE "idle"]

\* ws/route.ts:189, 356  .slice(0, MAX_RESULTS_PER_SOURCE)
Slice(n) == Min(n, WS_MAX_RESULTS_PER_SOURCE)

\* ws/route.ts:356-365  the items of a content API after slice and filter
StreamApiResults(j, n) == YellowFilter([k \in 1..Slice(n) |-> ApiItem(<<"api", j>>, k)])

\* ws/route.ts:116-434: the start event and, if it was written, the launch of
\* the Emby pool, the OpenList search and the API pool, up to the await of
\* the API pool. `ne` Emby sources were enumerated.
Launch(ne) ==
  LET tot == nApi + (IF hasOpenList THEN 1 ELSE 0) + ne
      w == SafeEnqueue(Writer, StartEvent(tot))
  IN
  /\ embySources' = ne
  /\ totalSources' = tot
  /\ SetWriter(w)
  /\ IF ~w.ok
     THEN /\ hsPc' = "done"
          /\ UNCHANGED <<embyStat, apiStat, olStat, poolPc>>
     ELSE /\ hsPc' = "awaitPool"
          /\ embyStat' = IF hasEmby /\ ne > 0 THEN PoolLaunchStat(ne, WS_MAX_CONCURRENT) ELSE <<>>
          /\ olStat' = IF hasOpenList THEN "running" ELSE "idle"
          /\ apiStat' = PoolLaunchStat(nApi, WS_MAX_CONCURRENT)
          /\ poolPc' = [emby |-> IF hasEmby /\ ne > 0
                                 THEN PoolPcAfterLaunch(ne, WS_MAX_CONCURRENT) ELSE "idle",
                        api |-> PoolPcAfterLaunch(nApi, WS_MAX_CONCURRENT)]
  /\ UNCHANGED <<nApi, hasOpenList, hasEmby, embyClients, cancelled, ctrl,
                 completedSources, failedSources, allResults, timeExceeded, batchVars, reqVars, sugVars, fanVars, scanVars>>

\* ws/route.ts:79-108: start(controller) is called; with Emby configured it
\* first awaits the enumeration of the Emby clients.
StreamStart ==
  /\ hsPc = "init"
  /\ IF hasEmby
     THEN /\ hsPc' = "enum"
          /\ UNCHANGED <<nApi, hasOpenList, hasEmby, embyClients, embySources,
                         totalSources, streamClosed, cancelled, ctrl, events, writeLog,
                         enqueueCalls, completedSources, failedSources, allResults,
                         timeExceeded, embyStat, apiStat, olStat, poolPc, batchVars, reqVars, sugVars, fanVars, scanVars>>
     ELSE Launch(0)

\* ws/route.ts:106-113: the enumeration ends; a failure leaves no Emby source.
EnumerateEmby ==
  /\ hsPc = "enum"
  /\ \E ok \in BOOLEAN : Launch(IF ok THEN embyClients ELSE 0)

\* ws/route.ts:437-441 cancel(): the consumer went away; its stream is closed.
Cancel ==
  /\ hsPc # "init"
  /\ ~cancelled
  /\ cancelled' = TRUE
  /\ streamClosed' = TRUE
  /\ ctrl' = IF ctrl = "open" THEN "closed" ELSE ctrl
  /\ UNCHANGED <<nApi, hasOpenList, hasEmby, embyClients, hsPc, embySources,
                 totalSources, events, writeLog, enqueueCalls, completedSources, failedSources,
                 allResults, timeExceeded, embyStat, apiStat, olStat, poolPc,
                 batchVars, reqVars, sugVars, fanVars, scanVars>>

\* Some code that reads the clock (ws/route.ts:145, 278, 343) has yet to run.
ClockStillRead ==
  \/ hsPc = "enum"
  \/ \E j \in EmbyIds : embyStat[j] \in {"idle", "queued"}
  \/ \E j \in ApiIds : apiStat[j] \in {"idle", "queued"}
  \/ olStat = "running"

\* ws/route.ts:98-100: the global deadline passes.
DeadlinePasses ==
  /\ ClockStillRead
  /\ ~timeExceeded
  /\ timeExceeded' = TRUE
  /\ UNCHANGED <<nApi, hasOpenList, hasEmby, embyClients, hsPc, embySources,
                 totalSources, streamClosed, cancelled, ctrl, events, writeLog,
                 enqueueCalls, completedSources, failedSources, allResults, embyStat, apiStat,
                 olStat, poolPc, batchVars, reqVars, sugVars, fanVars, scanVars>>

\* ws/route.ts:158: the pool resumes from Promise.race, which a promise that
\* settled earlier still wins: the next task is pushed, or the loop ends.
PoolResume(p) ==
  /\ poolPc[p] = "race"
  /\ LET stat == IF p = "emby" THEN embyStat ELSE apiStat
         pushed == Cardinality({j \in 1..Len(stat) : stat[j] # "idle"})
         stat2 == IF pushed < Len(stat) THEN [stat EXCEPT ![pushed + 1] = "queued"] ELSE stat
     IN
     /\ \E j \in 1..Len(stat) : stat[j] = "settled"
     /\ poolPc' = [poolPc EXCEPT ![p] = IF pushed < Len(stat) THEN "race" ELSE "allSettled"]
     /\ IF p = "emby"
        THEN embyStat' = stat2 /\ UNCHANGED apiStat
        ELSE apiStat' = stat2 /\ UNCHANGED embyStat
  /\ UNCHANGED <<nApi, hasOpenList, hasEmby, embyClients, hsPc, embySources,
                 totalSources, streamClosed, cancelled, ctrl, events, writeLog,
                 enqueueCalls, completedSources, failedSources, allResults, timeExceeded,
                 olStat, batchVars, reqVars, sugVars, fanVars, scanVars>>

\* ws/route.ts:162-163, 434-435: Promise.allSettled resolves; start() awaits the API pool only.
PoolFinish(p) ==
  /\ poolPc[p] = "allSettled"
  /\ LET stat == IF p = "emby" THEN embyStat ELSE apiStat
     IN \A j \in 1..Len(stat) : stat[j] = "settled"
  /\ poolPc' = [poolPc EXCEPT ![p] = "done"]
  /\ hsPc' = IF p = "api" THEN "done" ELSE hsPc
  /\ UNCHANGED <<nApi, hasOpenList, hasEmby, embyClients, embySources,
                 totalSources, streamClosed, cancelled, ctrl, events, writeLog,
                 enqueueCalls, completedSources, failedSources, allResults, timeExceeded,
                 embyStat, apiStat, olStat, batchVars, reqVars, sugVars, fanVars, scanVars>>

\* ws/route.ts:204, 225, 305, 325, 370, 395  if (!streamClosed): a task builds
\* and writes its event only while the flag is not set.
MayWriteAlways(closed) == TRUE
MayWriteNever(closed) == FALSE
MayWrite(closed) == ~closed

\* ws/route.ts:412  completedSources === totalSources
CompleteDueAfterFirst(c, t) == c >= 1
CompleteDue(c, t) == c = t

\* ws/route.ts:203, 222, 304, 320, 324, 368, 393  completedSources++: once on
\* each way through a task, in its try or in its catch.
IncrementCompletedInTryAndCatch(c) == c + 2
IncrementCompleted(c) == c + 1

\* ws/route.ts:214, 314, 386  allResults.push(...results)
AllResultsAssigned(all, n) == n
AllResultsPush(all, n) == all + n

\* ws/route.ts:367-430: an API task ends, with n items (ok) or in its catch:
\* its event, then the completion check.
ApiTaskEnd(j, ok, n) ==
  LET c == IncrementCompleted(completedSources)
      ev == IF ok THEN ResultEvent(<<"api", j>>, n) ELSE ErrorEvent(<<"api", j>>)
      w1 == IF MayWrite(streamClosed) THEN SafeEnqueue(Writer, ev) ELSE Writer
      failed == MayWrite(streamClosed) /\ ~w1.ok
      w1c == IF failed THEN [w1 EXCEPT !.closed = TRUE] ELSE w1
      ar == IF ok /\ ~failed THEN AllResultsPush(allResults, n) ELSE allResults
      due == ~failed /\ CompleteDue(c, totalSources) /\ ~w1c.closed
      w2 == IF due THEN SafeEnqueue(w1c, CompleteEvent(ar)) ELSE w1c
  IN
  /\ completedSources' = c
  /\ failedSources' = IF ok THEN failedSources ELSE failedSources \cup {<<"api", j>>}
  /\ allResults' = ar
  /\ SetWriter(w2)
  /\ ctrl' = IF due /\ w2.ok THEN "closed" ELSE ctrl

\* ws/route.ts:145  if (streamClosed || isTimeExceeded()) return;
SkipTaskOnDeadlineOnly(closed, exceeded) == exceeded
SkipTask(closed, exceeded) == closed \/ exceeded

\* ws/route.ts:144-149, 340-353: the queued promise of a pool task runs. It
\* ends at once when the stream is closed or the deadline has passed; else
\* the task begins. An API task reads the clock once more before it searches.
TaskBegin(p, j) ==
  /\ IF p = "emby" THEN j \in EmbyIds /\ embyStat[j] = "queued"
                   ELSE j \in ApiIds /\ apiStat[j] = "queued"
  /\ IF SkipTask(streamClosed, timeExceeded)
     THEN /\ IF p = "emby"
             THEN embyStat' = [embyStat EXCEPT ![j] = "settled"] /\ UNCHANGED apiStat
             ELSE apiStat' = [apiStat EXCEPT ![j] = "settled"] /\ UNCHANGED embyStat
          /\ UNCHANGED <<streamClosed, ctrl, events, writeLog, enqueueCalls,
                         completedSources, failedSources, allResults, timeExceeded>>
     ELSE IF p = "emby"
     THEN /\ embyStat' = [embyStat EXCEPT ![j] = "running"]
          /\ UNCHANGED <<apiStat, streamClosed, ctrl, events, writeLog, enqueueCalls,
                         completedSources, failedSources, allResults, timeExceeded>>
     ELSE \/ /\ apiStat' = [apiStat EXCEPT ![j] = "running"]
             /\ UNCHANGED <<embyStat, streamClosed, ctrl, events, writeLog, enqueueCalls,
                            completedSources, failedSources, allResults, timeExceeded>>
          \/ /\ timeExceeded' = TRUE
             /\ apiStat' = [apiStat EXCEPT ![j] = "settled"]
             /\ ApiTaskEnd(j, FALSE, 0)
             /\ UNCHANGED embyStat
  /\ UNCHANGED <<nApi, hasOpenList, hasEmby, embyClients, hsPc, embySources,
                 totalSources, cancelled, olStat, poolPc, batchVars, reqVars, sugVars, fanVars, scanVars>>

\* ws/route.ts:353-409: the search of an API site settles or its timeout fires.
ApiSettle(j) ==
  /\ j \in ApiIds
  /\ apiStat[j] = "running"
  /\ apiStat' = [apiStat EXCEPT ![j] = "settled"]
  /\ \/ ApiTaskEnd(j, TRUE, Len(StreamApiResults(j, BackendItems)))
     \/ ApiTaskEnd(j, FALSE, 0)
  /\ UNCHANGED <<nApi, hasOpenList, hasEmby, embyClients, hsPc, embySources,
                 totalSources, cancelled, timeExceeded, embyStat, olStat,
                 poolPc, batchVars, reqVars, sugVars, fanVars, scanVars>>

\* ws/route.ts:203-219, 304-318: a source_result whose failed write closes the stream.
\* ws/route.ts:220-235, 322-335: the catch writes an empty source_result and
\* ignores whether it was written.
PublishResult(src, ok, n) ==
  LET w1 == IF MayWrite(streamClosed)
            THEN SafeEnqueue(Writer, ResultEvent(src, IF ok THEN n ELSE 0))
            ELSE Writer
      failed == MayWrite(streamClosed) /\ ~w1.ok
      w1c == IF ok /\ failed THEN [w1 EXCEPT !.closed = TRUE] ELSE w1
  IN
  /\ completedSources' = IncrementCompleted(completedSources)
  /\ failedSources' = IF ok THEN failedSources ELSE failedSources \cup {src}
  /\ allResults' = IF ok /\ MayWrite(streamClosed) /\ w1.ok
                  THEN AllResultsPush(allResults, n) ELSE allResults
  /\ SetWriter(w1c)

\* ws/route.ts:183-235: the search of an Emby source settles or its timeout fires.
EmbySettle(j) ==
  /\ j \in EmbyIds
  /\ embyStat[j] = "running"
  /\ embyStat' = [embyStat EXCEPT ![j] = "settled"]
  /\ \/ PublishResult(EmbySourceValue(j, embySources), TRUE, Slice(BackendItems))
     \/ PublishResult(EmbySourceValue(j, embySources), FALSE, 0)
  /\ UNCHANGED <<nApi, hasOpenList, hasEmby, embyClients, hsPc, embySources,
                 totalSources, cancelled, ctrl, timeExceeded, apiStat, olStat,
                 poolPc, batchVars, reqVars, sugVars, fanVars, scanVars>>

\* ws/route.ts:244-336: the OpenList search ends: n matches in the index, no
\* index or no folders in it (only the count moves), or an exception.
OpenListSettle ==
  /\ olStat = "running"
  /\ olStat' = "settled"
  /\ \/ PublishResult(<<"openlist">>, TRUE,
                       IF streamClosed \/ timeExceeded THEN 0 ELSE Slice(BackendItems))
     \/ /\ completedSources' = IncrementCompleted(completedSources)
        /\ UNCHANGED <<streamClosed, events, writeLog, enqueueCalls, failedSources, allResults>>
     \/ PublishResult(<<"openlist">>, FALSE, 0)
  /\ UNCHANGED <<nApi, hasOpenList, hasEmby, embyClients, hsPc, embySources,
                 totalSources, cancelled, ctrl, timeExceeded, embyStat, apiStat,
                 poolPc, batchVars, reqVars, sugVars, fanVars, scanVars>>

BatchIdle ==
  /\ mode = "off"
  /\ kind = <<>>
  /\ beh = <<>>
  /\ limit = 0
  /\ weightMap = <<>>
  /\ task = <<>>
  /\ taskValue = <<>>
  /\ startCount = <<>>
  /\ frames = <<>>
  /\ mainPc = "off"
  /\ running = 0
  /\ completed = 0
  /\ index = 0
  /\ results = <<>>
  /\ progress = <<>>
  /\ returned = <<>>
  /\ response = NoResponse

\* ws/route.ts:19-76: an authorized request with a query; at most `most`
\* sources are configured.
InitStreamOf(most) ==
  /\ BatchIdle
  /\ ReqIdle
  /\ disableYellowFilter \in BOOLEAN
  /\ nApi \in 0..most
  /\ hasOpenList \in BOOLEAN
  /\ hasEmby \in BOOLEAN
  /\ embyClients \in 0..most
  /\ hasEmby = FALSE => embyClients = 0
  /\ nApi + (IF hasOpenList THEN 1 ELSE 0) + embyClients <= most
  /\ hsPc = "init"
  /\ embySources = 0
  /\ totalSources = 0
  /\ streamClosed = FALSE
  /\ cancelled = FALSE
  /\ ctrl = "open"
  /\ events = <<>>
  /\ writeLog = <<>>
  /\ enqueueCalls = 0
  /\ completedSources = 0
  /\ failedSources = {}
  /\ allResults = 0
  /\ timeExceeded = FALSE
  /\ embyStat = <<>>
  /\ apiStat = <<>>
  /\ olStat = "idle"
  /\ poolPc = [emby |-> "idle", api |-> "idle"]

NextStream ==
  \/ StreamStart
  \/ EnumerateEmby
  \/ Cancel
  \/ DeadlinePasses
  \/ \E p \in {"emby", "api"} : PoolResume(p)
  \/ \E p \in {"emby", "api"} : PoolFinish(p)
  \/ \E p \in {"emby", "api"}, j \in EmbyIds \cup ApiIds : TaskBegin(p, j)
  \/ \E j \in ApiIds : ApiSettle(j)
  \/ \E j \in EmbyIds : EmbySettle(j)
  \/ OpenListSettle

InitStream == InitStreamOf(MaxStreamSources)

SpecStream == InitStream /\ [][NextStream]_vars

\* One source more, so that a pool has a task left to push after its first
\* Promise.race and the sources can outnumber the limit.
InitStreamWide == InitStreamOf(MaxStreamSources + 1)

SpecStreamWide == InitStreamWide /\ [][NextStream]_vars

\* =========================================================================
\* GET of both handlers, from the request to the task list or the stream
\* =========================================================================
\* route.ts:83, ws/route.ts:21  !authInfo || !authInfo.username
AuthorizedAnyInfo(p) == p # "none"
Authorized(p) == p = "user"

\* route.ts:90, ws/route.ts:28  !query: null and the empty string alike
NoQueryNullOnly(q) == q = "missing"
NoQuery(q) == q \in {"missing", "empty"}

Unauthorized401 == [status |-> 401, body |-> "error"]
EmptyResults200 == [status |-> 200, body |-> "results: []"]
EmptyQuery400 == [status |-> 400, body |-> "error"]
Failed500 == [status |-> 500, body |-> "error"]
StreamResponse == [status |-> 200, body |-> "event-stream"]

\* A collaborator call is made, and GET waits for it.
Call(name, pc) ==
  /\ work' = Append(work, name)
  /\ reqPc' = pc
  /\ UNCHANGED reqResponse

\* GET returns a response.
Return(resp) ==
  /\ reqResponse' = resp
  /\ reqPc' = "done"
  /\ UNCHANGED work

\* The awaited call rejected outside any try block: the exception leaves GET.
Escape ==
  /\ reqPc' = "threw"
  /\ UNCHANGED <<work, reqResponse>>

\* route.ts:81-105, ws/route.ts:19-40: the principal, the query, and the
\* first collaborator call.
ReqBegin ==
  /\ reqPc = "auth"
  /\ IF ~Authorized(principal) THEN Return(Unauthorized401)
     ELSE IF NoQuery(query)
     THEN IF handler = "batch" THEN Call("getCacheTime", "cacheTime")
          ELSE Return(EmptyQuery400)
     ELSE Call("getConfig", "config")
  /\ UNCHANGED <<handler, principal, query, throwsAt, batchVars, streamVars, sugVars, fanVars, scanVars>>

\* route.ts:91-103: the cache time is there; the empty answer.
ReqCacheTime ==
  /\ reqPc = "cacheTime"
  /\ Return(EmptyResults200)
  /\ UNCHANGED <<handler, principal, query, throwsAt, batchVars, streamVars, sugVars, fanVars, scanVars>>

\* route.ts:105-108, ws/route.ts:40-41: getConfig() settles.
ReqConfigLoaded ==
  /\ reqPc = "config"
  /\ IF throwsAt = "getConfig" THEN Escape
     ELSE Call("getAvailableApiSites", "sites")
  /\ UNCHANGED <<handler, principal, query, throwsAt, batchVars, streamVars, sugVars, fanVars, scanVars>>

\* route.ts:108-126: getAvailableApiSites() settles; the batch handler goes
\* on to the Emby clients. ws/route.ts:41-455: the streaming handler builds
\* the stream, whose start() runs, and returns it.
ReqSitesLoaded ==
  /\ reqPc = "sites"
  /\ IF throwsAt = "getAvailableApiSites" THEN Escape
     ELSE IF handler = "batch" THEN Call("getAllClients", "emby")
     ELSE /\ work' = Append(work, "stream")
          /\ reqPc' = "done"
          /\ reqResponse' = StreamResponse
  /\ UNCHANGED <<handler, principal, query, throwsAt, batchVars, streamVars, sugVars, fanVars, scanVars>>

\* route.ts:126-133: embyManager.getAllClients() settles; then the try block
\* is entered and the task list built.
ReqEmbyLoaded ==
  /\ reqPc = "emby"
  /\ IF throwsAt = "getAllClients" THEN Escape
     ELSE /\ work' = Append(work, "tasks")
          /\ reqPc' = "try"
          /\ UNCHANGED reqResponse
  /\ UNCHANGED <<handler, principal, query, throwsAt, batchVars, streamVars, sugVars, fanVars, scanVars>>

\* A request of any kind to either handler; one collaborator may fail.
InitRequest ==
  /\ handler \in {"batch", "stream"}
  /\ principal \in {"none", "nouser", "user"}
  /\ query \in {"missing", "empty", "text"}
  /\ throwsAt \in {"none", "getConfig", "getAvailableApiSites", "getAllClients"}
  /\ reqPc = "auth"
  /\ work = <<>>
  /\ reqResponse = NoReqResponse
  /\ BatchIdle
  /\ StreamIdle
  /\ SugIdle
  /\ FanIdle
  /\ disableYellowFilter = FALSE

NextRequest ==
  \/ ReqBegin
  \/ ReqCacheTime
  \/ ReqConfigLoaded
  \/ ReqSitesLoaded
  \/ ReqEmbyLoaded

SpecRequest == InitRequest /\ [][NextRequest]_vars

\* The time since the batch request began passes the global deadline of the
\* specification; route.ts:81-293 reads no clock.
BatchDeadlinePasses ==
  /\ mode = "GET"
  /\ response = NoResponse
  /\ ~timeExceeded
  /\ timeExceeded' = TRUE
  /\ UNCHANGED <<batchVars, nApi, hasOpenList, hasEmby, embyClients, hsPc,
                 embySources, totalSources, streamClosed, cancelled, ctrl,
                 events, writeLog, enqueueCalls, completedSources,
                 failedSources, allResults, embyStat, apiStat, olStat, poolPc,
                 reqVars, sugVars, fanVars, scanVars>>

NextBatchClock ==
  \/ NextBatch
  \/ BatchDeadlinePasses

\* The batch handler while the clock runs.
SpecBatchClock == InitBatch /\ [][NextBatchClock]_vars

\* =========================================================================
\* generateSuggestions, ws/route.ts:547-625
\* =========================================================================
\* Strings are sequences of letters; "A" is the upper case of "a". The
\* titles a site sends are written with "A" and "b", a query with any letter.
Letters == {"a", "A", "b"}
TitleLetters == {"A", "b"}

Strings(alphabet, lo, hi) == UNION {[1..n -> alphabet] : n \in lo..hi}

ToLowerCase(str) == [i \in 1..Len(str) |-> IF str[i] = "A" THEN "a" ELSE str[i]]

Includes(str, part) ==
  \E i \in 0..(Len(str) - Len(part)) : SubSeq(str, i + 1, i + Len(part)) = part

StartsWith(str, part) == Len(part) <= Len(str) /\ SubSeq(str, 1, Len(part)) = part

EndsWith(str, part) ==
  Len(part) <= Len(str) /\ SubSeq(str, Len(str) - Len(part) + 1, Len(str)) = part

\* ws/route.ts:582  queryLower.split(/[ -:...]/): a query of letters has no
\* separator in it and is its only word.
QueryWords(queryLower) == {queryLower}

\* ws/route.ts:584-594, scores times ten: 2.0, 1.8, 1.5, 1.0
Score(word, q) ==
  LET wordLower == ToLowerCase(word)
      queryLower == ToLowerCase(q)
  IN IF wordLower = queryLower THEN 20
     ELSE IF StartsWith(wordLower, queryLower) \/ EndsWith(wordLower, queryLower) THEN 18
     ELSE IF \E qw \in QueryWords(queryLower) : Includes(wordLower, qw) THEN 15
     ELSE 10

\* ws/route.ts:597-604
TypeOf(score) ==
  IF score >= 20 THEN "exact"
  ELSE IF score >= 15 THEN "related"
  ELSE "suggestion"

\* ws/route.ts:606-610
Suggestion(word, q) ==
  [text |-> word, type |-> TypeOf(Score(word, q)), score |-> Score(word, q)]

\* ws/route.ts:619  typePriority = { exact: 3, related: 2, suggestion: 1 }
TypePriority(t) == IF t = "exact" THEN 3 ELSE IF t = "related" THEN 2 ELSE 1

\* ws/route.ts:614-621  the comparator
SuggestCompareAscending(a, b) ==
  IF a.score # b.score THEN a.score - b.score
  ELSE TypePriority(a.type) - TypePriority(b.type)
SuggestCompare(a, b) ==
  IF a.score # b.score THEN b.score - a.score
  ELSE TypePriority(b.type) - TypePriority(a.type)

\* Array.prototype.sort with that comparator, a stable sort.
RECURSIVE SuggestInsert(_, _)
SuggestInsert(s, x) ==
  IF s = <<>> THEN <<x>>
  ELSE IF SuggestCompare(s[Len(s)], x) <= 0 THEN Append(s, x)
  ELSE Append(SuggestInsert(SubSeq(s, 1, Len(s) - 1), x), s[Len(s)])

RECURSIVE SuggestSort(_)
SuggestSort(s) ==
  IF s = <<>> THEN <<>>
  ELSE SuggestInsert(SuggestSort(SubSeq(s, 1, Len(s) - 1)), s[Len(s)])

\* ws/route.ts:570-572  the filter every kept word has passed
KeywordKept(word, q) ==
  Len(word) > 1 /\ Includes(ToLowerCase(word), ToLowerCase(q))

\* ws/route.ts:579-624: the words are scored, typed and sorted.
GenerateSuggestions ==
  /\ sgPc = "call"
  /\ suggestions' =
       SuggestSort([k \in 1..Len(realKeywords) |-> Suggestion(realKeywords[k], sgQuery)])
  /\ sgPc' = "returned"
  /\ UNCHANGED <<sgQuery, realKeywords, batchVars, streamVars, reqVars, fanVars, scanVars>>

\* ws/route.ts:555-577: a query and the distinct words (new Set) kept for it.
InitSuggest ==
  /\ sgQuery \in Strings(Letters, 1, MaxWordLen)
  /\ \E n \in 0..MaxKeywords :
       /\ realKeywords \in [1..n -> {word \in Strings(TitleLetters, 2, MaxWordLen) : KeywordKept(word, sgQuery)}]
       /\ \A i, j \in 1..n : i # j => realKeywords[i] # realKeywords[j]
  /\ sgPc = "call"
  /\ suggestions = <<>>
  /\ BatchIdle
  /\ StreamIdle
  /\ disableYellowFilter = FALSE
  /\ handler = "off"
  /\ principal = "user"
  /\ query = "text"
  /\ throwsAt = "none"
  /\ reqPc = "off"
  /\ work = <<>>
  /\ reqResponse = NoReqResponse
  /\ FanIdle

NextSuggest == GenerateSuggestions

SpecSuggest == InitSuggest /\ [][NextSuggest]_vars

\* The scheduler alone, on arbitrary tasks.
InitSched == InitBatch /\ mode = "generic"

NextSched ==
  \/ MainCallStartNext
  \/ \E i \in Tasks : TaskSettle(i)
  \/ FrameContinue
  \/ FrameLoopBack
  \/ MainPoll
  \/ MainReturn

SpecSched == InitSched /\ [][NextSched]_vars

\* The event loop runs every continuation that is ready, and an operation
\* that can settle does settle.
FairSpecSched ==
  /\ SpecSched
  /\ WF_vars(MainCallStartNext)
  /\ \A i \in 1..MaxTasks : WF_vars(TaskSettle(i))
  /\ WF_vars(FrameContinue)
  /\ WF_vars(FrameLoopBack)
  /\ WF_vars(MainPoll)
  /\ WF_vars(MainReturn)

\* =========================================================================
\* From the configuration to the sources that are searched
\* =========================================================================
\* route.ts:117-122, 351-356  hasOpenList
HasOpenList(cfg) == cfg["Enabled"] /\ cfg["URL"] /\ cfg["Username"] /\ cfg["Password"]

\* route.ts:108 allApiSites; route.ts:342 .slice(0, MAX_CONCURRENT_API_SITES)
ApiSitesSearched(v, n) == IF v = "allSettled" THEN Min(n, MAX_CONCURRENT_API_SITES) ELSE n

\* route.ts:127 allEmbySources; route.ts:361 .slice(0, MAX_CONCURRENT_EMBY_SOURCES)
EmbySourcesSearched(v, n) == IF v = "allSettled" THEN Min(n, MAX_CONCURRENT_EMBY_SOURCES) ELSE n

\* route.ts:105-252, 340-493: the sources are enumerated and a task (pool) or
\* a promise (allSettled) is made for each: OpenList, Emby, API.
Enumerate ==
  /\ fanPc = "enumerate"
  /\ searchTasks' = TaskKinds(HasOpenList(openListConfig),
                              EmbySourcesSearched(variant, embyInstances),
                              ApiSitesSearched(variant, availableSites))
  /\ fanPc' = "search"
  /\ UNCHANGED <<variant, openListConfig, availableSites, embyInstances, pages,
                 allSourceResults, collected, merged, batchVars, streamVars,
                 reqVars, sugVars, scanVars>>

\* An authorized batch request with a query, to either snapshot of the
\* handler, under any configuration.
InitEnum ==
  /\ variant \in {"pool", "allSettled"}
  /\ openListConfig \in [OpenListFields -> BOOLEAN]
  /\ availableSites \in 0..MaxSites
  /\ embyInstances \in 0..MaxInstances
  /\ fanPc = "enumerate"
  /\ searchTasks = <<>>
  /\ pages = <<>>
  /\ allSourceResults = <<>>
  /\ collected = 0
  /\ merged = <<>>
  /\ ScanIdle
  /\ BatchIdle
  /\ StreamIdle
  /\ SugIdle
  /\ disableYellowFilter = FALSE
  /\ handler = "off"
  /\ principal = "user"
  /\ query = "text"
  /\ throwsAt = "none"
  /\ reqPc = "off"
  /\ work = <<>>
  /\ reqResponse = NoReqResponse

NextEnum == Enumerate

SpecEnum == InitEnum /\ [][NextEnum]_vars

\* =========================================================================
\* From the sources that are searched to the answer
\* =========================================================================
SearchedOfKind(kd) == Cardinality({i \in 1..Len(searchTasks) : searchTasks[i] = kd})

\* Position of source i among the sources of its own kind.
SearchedIdx(i) == Cardinality({k \in 1..i : searchTasks[k] = searchTasks[i]})

\* How many items a backend sends for the query (for OpenList: how many of
\* the index entries it scans match): none, a few, one more than the
\* per-source maximum and, from a content API, which pages freely, one more
\* than twice the maximum.
PageSizes(kd) ==
  {0, MaxItems, MAX_RESULTS_PER_SOURCE + 1}
    \cup (IF kd = "api" THEN {2 * MAX_RESULTS_PER_SOURCE + 1} ELSE {})

\* ws/route.ts:183-201: what an Emby task of the stream puts in its event
StreamEmbyResults(j, n, cnt) ==
  Batch(EmbySourceValue(j, cnt), [k \in 1..Slice(n) |-> Item(EmbySourceValue(j, cnt), k)])

\* ws/route.ts:269-302: the scan stops at MAX_RESULTS_PER_SOURCE matches
StreamOpenListResults(n) ==
  Batch(<<"openlist">>, [k \in 1..Slice(n) |-> Item(<<"openlist">>, k)])

\* ws/route.ts:353-365: slice, then the filter
StreamApiBatch(j, n) == Batch(<<"api", j>>, StreamApiResults(j, n))

\* route.ts:367-409: an Emby promise of the allSettled snapshot, with its slice
AllSettledEmby(j, n, cnt) ==
  Batch(EmbySourceValue(j, cnt),
        [k \in 1..Min(n, MAX_RESULTS_PER_SOURCE) |-> Item(EmbySourceValue(j, cnt), k)])

\* route.ts:412-480: the OpenList promise; the scan stops at MAX_RESULTS_PER_SOURCE
AllSettledOpenList(n) ==
  Batch(<<"openlist">>, [k \in 1..Min(n, MAX_RESULTS_PER_SOURCE) |-> Item(<<"openlist">>, k)])

\* route.ts:483-493: an API promise resolves with what searchFromApi sent
AllSettledApi(j, n) == Batch(<<"api", j>>, [k \in 1..n |-> ApiItem(<<"api", j>>, k)])

\* What the source of kind kd, the j-th of its kind among cnt, hands on when
\* its backend sends n items.
SourceResults(v, kd, j, n, cnt) ==
  IF v = "pool"
  THEN IF kd = "openlist" THEN OpenListTask(TRUE, n)
       ELSE IF kd = "emby" THEN EmbyTask(j, n, TRUE, cnt)
       ELSE ApiTask(j, n, TRUE)
  ELSE IF v = "stream"
  THEN IF kd = "openlist" THEN StreamOpenListResults(n)
       ELSE IF kd = "emby" THEN StreamEmbyResults(j, n, cnt)
       ELSE StreamApiBatch(j, n)
  ELSE IF kd = "openlist" THEN AllSettledOpenList(n)
       ELSE IF kd = "emby" THEN AllSettledEmby(j, n, cnt)
       ELSE AllSettledApi(j, n)

\* Every backend answers; each source hands on its batch (pool, allSettled)
\* or writes it in its source_result event (stream).
Search ==
  /\ fanPc = "search"
  /\ \E pg \in [1..Len(searchTasks) -> PageSizes("api")] :
       /\ \A i \in 1..Len(searchTasks) : pg[i] \in PageSizes(searchTasks[i])
       /\ pages' = pg
       /\ allSourceResults' =
            [i \in 1..Len(searchTasks) |->
               SourceResults(variant, searchTasks[i], SearchedIdx(i), pg[i],
                             SearchedOfKind("emby"))]
  /\ fanPc' = IF variant = "stream" THEN "done" ELSE "merge"
  /\ UNCHANGED <<variant, openListConfig, availableSites, embyInstances,
                 searchTasks, collected, merged, batchVars, streamVars, reqVars,
                 sugVars, scanVars>>

\* Array.prototype.slice(0, n)
Take(items, n) == SubSeq(items, 1, Min(Len(items), n))

\* route.ts:504-534: OpenList is pushed first, then the Emby results, then
\* the API results, each unless the deadline has passed by then.
GroupOf(b) ==
  IF b.source[1] = "openlist" THEN 1 ELSE IF b.source[1] = "emby" THEN 2 ELSE 3

\* route.ts:548  MAX_RESULTS_PER_SOURCE * (apiSites.length + embySources.length + 1)
TotalCap == MAX_RESULTS_PER_SOURCE * (SearchedOfKind("api") + SearchedOfKind("emby") + 1)

\* route.ts:538-562: the groups are spread into one list, which is cut to
\* the total cap, filtered and sorted.
MergeAllSettled(got) == SortByWeight(YellowFilter(Take(Flatten(got), TotalCap)))

\* route.ts:268-279 (pool), 500-581 (allSettled): the results of the response.
\* In the allSettled snapshot the first d groups were pushed in time.
Merge ==
  /\ fanPc = "merge"
  /\ \E d \in 0..3 :
       /\ variant = "pool" => d = 3
       /\ collected' = d
       /\ merged' = IF variant = "pool"
                    THEN SortByWeight(Flatten(allSourceResults))
                    ELSE MergeAllSettled(SelectSeq(allSourceResults, LAMBDA b : GroupOf(b) <= d))
  /\ fanPc' = "done"
  /\ UNCHANGED <<variant, openListConfig, availableSites, embyInstances,
                 searchTasks, pages, allSourceResults, batchVars, streamVars,
                 reqVars, sugVars, scanVars>>

\* A request whose sources are enumerated: at most MaxMergeSources of them,
\* with their weights.
InitMerge ==
  /\ variant \in {"pool", "allSettled", "stream"}
  /\ \E ol \in BOOLEAN, ne \in 0..MaxMergeSources, na \in 0..MaxMergeSources :
       /\ (IF ol THEN 1 ELSE 0) + ne + na <= MaxMergeSources
       /\ openListConfig = [f \in OpenListFields |-> ol]
       /\ embyInstances = ne
       /\ availableSites = na
       /\ searchTasks = TaskKinds(ol, ne, na)
       /\ weightMap \in [1..na -> 0..MaxWeight]
  /\ disableYellowFilter \in BOOLEAN
  /\ fanPc = "search"
  /\ pages = <<>>
  /\ allSourceResults = <<>>
  /\ collected = 0
  /\ merged = <<>>
  /\ ScanIdle
  /\ mode = "off"
  /\ kind = <<>>
  /\ beh = <<>>
  /\ limit = 0
  /\ task = <<>>
  /\ taskValue = <<>>
  /\ startCount = <<>>
  /\ frames = <<>>
  /\ mainPc = "off"
  /\ running = 0
  /\ completed = 0
  /\ index = 0
  /\ results = <<>>
  /\ progress = <<>>
  /\ returned = <<>>
  /\ response = NoResponse
  /\ StreamIdle
  /\ SugIdle
  /\ handler = "off"
  /\ principal = "user"
  /\ query = "text"
  /\ throwsAt = "none"
  /\ reqPc = "off"
  /\ work = <<>>
  /\ reqResponse = NoReqResponse

NextMerge ==
  \/ Search
  \/ Merge

SpecMerge == InitMerge /\ [][NextMerge]_vars

\* =========================================================================
\* The scan of the OpenList index
\* =========================================================================
\* route.ts:175, 463; ws/route.ts:300  results.length >= MAX_RESULTS_PER_SOURCE
ResultCap(v) == IF v = "stream" THEN WS_MAX_RESULTS_PER_SOURCE ELSE MAX_RESULTS_PER_SOURCE

\* The bound of the loop: route.ts:155 `i < folderEntries.length`;
\* route.ts:436, ws/route.ts:274 `Math.min(folderEntries.length, 500)`.
MaxFoldersToSearch(v, n) == IF v = "pool" THEN n ELSE Min(n, MAX_FOLDERS_TO_SEARCH)

\* route.ts:157-160  matchFolder || matchTitle, for the k-th entry
MatchesQuery(k) == matchEvery > 0 /\ k % matchEvery = 0

\* route.ts:155-177, 439-465; ws/route.ts:277-302: one turn of the loop. The
\* entry is tested; a match is pushed, and the loop is left once the results
\* have reached the cap.
ScanStep ==
  /\ scanPc = "loop"
  /\ examined < MaxFoldersToSearch(variant, folderEntriesLength)
  /\ examined' = examined + 1
  /\ IF MatchesQuery(examined + 1)
     THEN /\ scanResults' = scanResults + 1
          /\ scanPc' = IF scanResults + 1 >= ResultCap(variant) THEN "returned" ELSE "loop"
     ELSE UNCHANGED <<scanResults, scanPc>>
  /\ UNCHANGED <<variant, openListConfig, availableSites, embyInstances, fanPc,
                 searchTasks, pages, allSourceResults, collected, merged,
                 folderEntriesLength, matchEvery, batchVars, streamVars, reqVars,
                 sugVars>>

\* ws/route.ts:278  if (streamClosed || isTimeExceeded()) break;
ScanInterrupted ==
  /\ scanPc = "loop"
  /\ variant = "stream"
  /\ examined < MaxFoldersToSearch(variant, folderEntriesLength)
  /\ scanPc' = "returned"
  /\ UNCHANGED <<variant, openListConfig, availableSites, embyInstances, fanPc,
                 searchTasks, pages, allSourceResults, collected, merged,
                 folderEntriesLength, matchEvery, examined, scanResults,
                 batchVars, streamVars, reqVars, sugVars>>

\* The loop condition fails: every entry within the bound has been tested.
ScanEnd ==
  /\ scanPc = "loop"
  /\ examined >= MaxFoldersToSearch(variant, folderEntriesLength)
  /\ scanPc' = "returned"
  /\ UNCHANGED <<variant, openListConfig, availableSites, embyInstances, fanPc,
                 searchTasks, pages, allSourceResults, collected, merged,
                 folderEntriesLength, matchEvery, examined, scanResults,
                 batchVars, streamVars, reqVars, sugVars>>

\* The OpenList task of either snapshot of the batch handler or of the
\* streaming handler has loaded an index with folders: an empty one, a small
\* one, one of MAX_FOLDERS_TO_SEARCH entries or a larger one.
InitScan ==
  /\ variant \in {"pool", "allSettled", "stream"}
  /\ folderEntriesLength \in {0, MaxItems, MAX_FOLDERS_TO_SEARCH, MaxFolders}
  /\ matchEvery \in 0..MaxItems
  /\ examined = 0
  /\ scanResults = 0
  /\ scanPc = "loop"
  /\ openListConfig = [f \in OpenListFields |-> TRUE]
  /\ availableSites = 0
  /\ embyInstances = 0
  /\ fanPc = "off"
  /\ searchTasks = <<>>
  /\ pages = <<>>
  /\ allSourceResults = <<>>
  /\ collected = 0
  /\ merged = <<>>
  /\ BatchIdle
  /\ StreamIdle
  /\ SugIdle
  /\ disableYellowFilter = FALSE
  /\ handler = "off"
  /\ principal = "user"
  /\ query = "text"
  /\ throwsAt = "none"
  /\ reqPc = "off"
  /\ work = <<>>
  /\ reqResponse = NoReqResponse

NextScan ==
  \/ ScanStep
  \/ ScanInterrupted
  \/ ScanEnd

SpecScan == InitScan /\ [][NextScan]_vars

\* ------------------------------------------------------------- properties
RunningTasks == {i \in Tasks : task[i] = "running"}

\* The operation of task i settles: it resolves, rejects or times out.
Settles(i) == beh[i] # "hang" \/ (kind[i] # "raw" /\ HasTimeout(kind[i]))

\* C1: with limit >= 1, at no instant are more than `limit` tasks of
\* runWithConcurrencyControl running (started and not yet settled).
C1_AtMostLimitRunning ==
  limit >= 1 => Cardinality(RunningTasks) <= limit

\* A task runs at the limit while an earlier task has already completed.
C1_Witness ==
  /\ limit >= 1
  /\ total >= 2
  /\ Cardinality(RunningTasks) = limit
  /\ completed >= 1

\* C3: every submitted task is started exactly once: never a second time,
\* whatever its outcome, and none is left out when the scheduler returns.
C3_StartedExactlyOnce ==
  /\ \A i \in Tasks : startCount[i] <= 1
  /\ \A i \in Tasks : task[i] # "idle" <=> startCount[i] = 1
  /\ mainPc = "returned" => \A i \in Tasks : startCount[i] = 1

\* The scheduler has returned after a task rejected and a later one ran.
C3_Witness ==
  /\ mainPc = "returned"
  /\ total >= 2
  /\ \E i, j \in Tasks : i < j /\ task[i] = "rejected" /\ task[j] = "resolved"

\* C4: if every task operation settles and limit >= 1, every task is
\* eventually started and the scheduler eventually returns.
C4_EventuallyReturns ==
  []((limit >= 1 /\ \A i \in Tasks : Settles(i))
       => <>(mainPc = "returned" /\ \A i \in Tasks : startCount[i] >= 1))

\* The scheduler returned from a list of several tasks that all settle.
C4_Witness ==
  /\ limit >= 1
  /\ total >= 2
  /\ \A i \in Tasks : Settles(i)
  /\ mainPc = "returned"

\* C5: in batch mode a task of any kind whose backend operation never
\* resolves is ended by its own timeout, so the request is never left
\* waiting: until it has answered, some step of the handler can be taken.
C5_HangingTaskTimesOut ==
  mode = "GET" =>
    /\ \A i \in Tasks : (task[i] = "running" /\ beh[i] = "hang") => ENABLED TaskSettle(i)
    /\ response # NoResponse \/ ENABLED NextBatch

\* C10: the batch response lists the flattened items in non-increasing
\* order of weight, and items of equal weight keep the relative order they
\* had in the flattened sequence.
PosIn(s, x) == CHOOSE p \in 1..Len(s) : s[p] = x

C10_StableWeightSort ==
  response.status = 200 =>
    LET flat == Flatten(returned)
        out == response.results
    IN /\ Len(out) = Len(flat)
       /\ \A p \in 1..Len(flat) : \E q \in 1..Len(out) : out[q] = flat[p]
       /\ \A p, q \in 1..Len(out) :
            p < q => /\ WeightOf(out[p]) >= WeightOf(out[q])
                     /\ WeightOf(out[p]) = WeightOf(out[q])
                          => PosIn(flat, out[p]) < PosIn(flat, out[q])

\* The sort moved a heavier item forward past items of two sources that tie.
C10_Witness ==
  /\ response.status = 200
  /\ response.results # Flatten(returned)
  /\ \E p, q \in 1..Len(response.results) :
       /\ p < q
       /\ response.results[p].source # response.results[q].source
       /\ WeightOf(response.results[p]) = WeightOf(response.results[q])

\* ---- streaming handler
CountType(t) == Cardinality({p \in 1..Len(events) : events[p].type = t})

SourceEvents == {p \in 1..Len(events) : events[p].type \in {"source_result", "source_error"}}

EventsOf(src) == {p \in SourceEvents : events[p].source = src}

\* The source keys of the request, as the events name them.
StreamSources ==
  {<<"api", j>> : j \in 1..nApi}
    \cup {EmbySourceValue(j, embySources) : j \in 1..embySources}
    \cup (IF hasOpenList THEN {<<"openlist">>} ELSE {})

\* Searches in flight: begun and not yet settled.
StreamRunning ==
  Cardinality({j \in EmbyIds : embyStat[j] = "running"})
    + Cardinality({j \in ApiIds : apiStat[j] = "running"})
    + (IF olStat = "running" THEN 1 ELSE 0)

\* start() has returned and no search or pool of the request is left in flight.
RunOver ==
  /\ hsPc = "done"
  /\ \A j \in EmbyIds : embyStat[j] = "settled"
  /\ \A j \in ApiIds : apiStat[j] = "settled"
  /\ olStat # "running"
  /\ poolPc.emby \in {"idle", "done"}

\* C2: at no instant are more than MAX_CONCURRENT source searches of one
\* streaming request running, all kinds of source counted together.
C2_AtMostMaxConcurrent ==
  StreamRunning <= WS_MAX_CONCURRENT

\* C6: an uncancelled streaming run in which every search has settled has
\* written exactly one complete event and closed the stream.
C6_CompleteOnceThenClosed ==
  (RunOver /\ ~cancelled) => (CountType("complete") = 1 /\ ctrl = "closed")

\* C7: an uncancelled streaming run has written, once it is over, exactly
\* one source_result or source_error per source: totalSources in all, the
\* number its start event announced.
C7_OneEventPerSource ==
  (RunOver /\ ~cancelled) =>
    /\ events # <<>> /\ events[1] = StartEvent(totalSources)
    /\ Cardinality(SourceEvents) = totalSources
    /\ \A src \in StreamSources : Cardinality(EventsOf(src)) = 1

\* start() is past the write of the start event.
PastStartWrite == hsPc \in {"awaitPool", "done"}

\* What C8 says of complete: written at most once, only with
\* completedSources = totalSources, and nothing is written after it.
CompleteIsLast ==
  /\ CountType("complete") <= 1
  /\ \A p \in 1..Len(events) :
       events[p].type = "complete" => (p = Len(events) /\ completedSources = totalSources)

\* C8 as claimed: on every streaming run start is written exactly once and
\* before any other event; complete at most once, only with
\* completedSources = totalSources, and nothing after it.
C8_StartOnEveryRun ==
  /\ PastStartWrite => CountType("start") = 1
  /\ events # <<>> => events[1].type = "start"
  /\ CompleteIsLast

\* C8, amended: start is written at most once and before any other event,
\* and exactly once unless the consumer cancelled before it was written, in
\* which case nothing at all is written; complete as claimed.
C8_StartFirstCompleteLast ==
  /\ CountType("start") <= 1
  /\ events # <<>> => events[1].type = "start"
  /\ PastStartWrite => (CountType("start") = 1 \/ (cancelled /\ events = <<>>))
  /\ CompleteIsLast

\* A run that wrote start, several source events and then complete.
C8_Witness ==
  /\ Len(events) >= 4
  /\ events[1].type = "start"
  /\ events[Len(events)].type = "complete"
  /\ ctrl = "closed"
  /\ ~cancelled

\* C9: once cancel() has run, no event is written to the stream and
\* controller.enqueue is not called again, whatever completes afterwards.
C9_NoWriteAfterCancel ==
  [][cancelled => (events' = events /\ enqueueCalls' = enqueueCalls)]_vars

\* The consumer left after start and one source_result; a search that was
\* running then has completed since without an event.
C9_Witness ==
  /\ cancelled
  /\ ~hasOpenList
  /\ Len(events) = 2
  /\ events[2].type = "source_result"
  /\ completedSources >= 2

\* ---- batch handler, per-source failures
\* The sources of the request whose adapter neither threw nor ran out of time.
HealthyTasks == {i \in Tasks : beh[i] = "ok"}

ResponseItems == {response.results[p] : p \in 1..Len(response.results)}

ItemsOf(i) == {taskValue[i].results[k] : k \in 1..Len(taskValue[i].results)}

\* C11: whichever sources throw or time out, the batch response is a success
\* whose results are exactly the items of the other sources, each once.
C11_FailuresLeaveOthersIntact ==
  (mode = "GET" /\ response # NoResponse) =>
    /\ response.status = 200
    /\ ResponseItems = UNION {ItemsOf(i) : i \in HealthyTasks}
    /\ Cardinality(ResponseItems) = Len(response.results)

\* A response with the items of one source while another threw and a third
\* timed out.
C11_Witness ==
  /\ mode = "GET"
  /\ response # NoResponse
  /\ \E i, j, k \in Tasks :
       /\ beh[i] = "throw"
       /\ beh[j] = "hang"
       /\ beh[k] = "ok" /\ Len(taskValue[k].results) >= 1
       /\ i < k /\ j < k

\* ---- batch handler, same sources, same answer
RECURSIVE TaskItems(_)
TaskItems(i) == IF i = 0 THEN <<>> ELSE TaskItems(i - 1) \o taskValue[i].results

\* C19: the merged list of a batch response is a function of what each source
\* answered, in the order the sources were enumerated, of the weights and of
\* the filter; the order in which the sources completed has no part in it.
C19_SameSourcesSameList ==
  (mode = "GET" /\ response # NoResponse) =>
    response.results = SortByWeight(TaskItems(total))

\* A response merged from two sources that both answered with items.
C19_Witness ==
  /\ mode = "GET"
  /\ response # NoResponse
  /\ \E i, j \in Tasks :
       /\ i < j
       /\ Len(taskValue[i].results) >= 1
       /\ Len(taskValue[j].results) >= 1
       /\ WeightOf(taskValue[i].results[1]) = WeightOf(taskValue[j].results[1])

\* ---- streaming handler, failures and the deadline
ErrorEventsOf(src) == {p \in 1..Len(events) : events[p] = ErrorEvent(src)}

\* C12: in a streaming run that the consumer has not left, every source
\* whose search threw or timed out, of whatever kind, has exactly one
\* source_error event.
C12_FailureYieldsSourceError ==
  ~cancelled => \A src \in failedSources : Cardinality(ErrorEventsOf(src)) = 1

\* The searches in flight after this step that were not in flight before it.
SearchInvoked ==
  \/ \E j \in 1..Len(embyStat') :
       embyStat'[j] = "running" /\ ~(j \in EmbyIds /\ embyStat[j] = "running")
  \/ \E j \in 1..Len(apiStat') :
       apiStat'[j] = "running" /\ ~(j \in ApiIds /\ apiStat[j] = "running")
  \/ olStat' = "running" /\ olStat # "running"

\* C17: once the global deadline has passed, no step of the streaming
\* handler invokes the search of a source that was not yet running.
C17_NoSearchInvokedAfterDeadline ==
  [][timeExceeded => ~SearchInvoked]_vars

\* C18: a call of safeEnqueue that fails is the last call of safeEnqueue of
\* the run, and streamClosed is set from then on: the failed write is not
\* repeated and no other write is attempted.
C18_FailedWriteIsTerminal ==
  \A p \in 1..Len(writeLog) :
    ~writeLog[p] => (p = Len(writeLog) /\ streamClosed)

\* A write has failed, and a source has completed since.
C18_Witness ==
  /\ writeLog # <<>>
  /\ ~writeLog[Len(writeLog)]
  /\ hsPc = "done"

\* ---- GET up to the task list or the stream
InWork(name) == \E p \in 1..Len(work) : work[p] = name

\* C13: with a missing or empty query no configuration is loaded, no source
\* is enumerated, no task list and no stream is made; the batch handler
\* answers { results: [] } and the streaming handler a 400 error.
C13_EmptyQueryShortCircuits ==
  (principal = "user" /\ query \in {"missing", "empty"}) =>
    /\ \A name \in {"getConfig", "getAvailableApiSites", "getAllClients", "tasks", "stream"} :
         ~InWork(name)
    /\ reqPc \in {"auth", "cacheTime", "done"}
    /\ reqPc = "done" =>
         reqResponse = IF handler = "batch" THEN EmptyResults200 ELSE EmptyQuery400

\* The batch handler has answered an empty query.
C13_Witness ==
  /\ handler = "batch"
  /\ principal = "user"
  /\ query = "empty"
  /\ reqPc = "done"
  /\ reqResponse = EmptyResults200

\* C14: a request without authInfo or without a user name makes no
\* collaborator call and creates nothing, in either handler, and is answered
\* with 401.
C14_UnauthorizedRejectedFirst ==
  principal # "user" =>
    /\ work = <<>>
    /\ reqPc \in {"auth", "done"}
    /\ reqPc = "done" => reqResponse = Unauthorized401

\* A request whose cookie names no user has been answered.
C14_Witness ==
  /\ principal = "nouser"
  /\ query = "text"
  /\ reqPc = "done"
  /\ reqResponse = Unauthorized401

\* C15: when the configuration load or an enumeration of the batch handler
\* throws, no exception leaves GET: the handler answers 500 { error }.
C15_EnumerationFailureAnswers500 ==
  (handler = "batch" /\ principal = "user" /\ query = "text" /\ throwsAt # "none") =>
    /\ reqPc # "threw"
    /\ reqPc = "done" => reqResponse = Failed500

\* C16: once the global deadline has passed, the batch handler starts no
\* further task.
C16_NoTaskStartedAfterDeadline ==
  [][timeExceeded => startCount' = startCount]_vars

\* ---- generateSuggestions
\* C20: the suggestions returned are in order of non-increasing score and,
\* at equal score, of type priority exact > related > suggestion; an item is
\* exact iff its text is the query up to case, and then has score 2.0,
\* related iff its score is at least 1.5 and below 2.0, suggestion otherwise.
C20_SuggestionsSortedAndTyped ==
  sgPc = "returned" =>
    /\ Len(suggestions) = Len(realKeywords)
    /\ \A p, q \in 1..Len(suggestions) :
         p < q =>
           /\ suggestions[p].score >= suggestions[q].score
           /\ suggestions[p].score = suggestions[q].score =>
                TypePriority(suggestions[p].type) >= TypePriority(suggestions[q].type)
    /\ \A p \in 1..Len(suggestions) :
         LET sg == suggestions[p]
             same == ToLowerCase(sg.text) = ToLowerCase(sgQuery)
         IN /\ sg.type = "exact" <=> same
            /\ same => sg.score = 20
            /\ sg.type = "related" <=> (sg.score >= 15 /\ sg.score < 20)
            /\ sg.type = "suggestion" <=> sg.score < 15
            /\ sg.score = IF same THEN 20
                          ELSE IF StartsWith(ToLowerCase(sg.text), ToLowerCase(sgQuery))
                                  \/ EndsWith(ToLowerCase(sg.text), ToLowerCase(sgQuery))
                          THEN 18 ELSE 15

\* A word that begins or ends with the query was given first and the query
\* itself, in another case, second; they were returned in the other order.
C20_Witness ==
  /\ sgPc = "returned"
  /\ Len(suggestions) = 2
  /\ suggestions[1].type = "exact"
  /\ suggestions[1].text # sgQuery
  /\ suggestions[2].score = 18
  /\ realKeywords[1] = suggestions[2].text

\* ---- runWithConcurrencyControl, its pace and its return
\* C21: whenever fewer than `limit` tasks are running and tasks are left to
\* start, the scheduler has a step of its own to take and need not wait for
\* a running task to settle; so with `limit` or more tasks that stay
\* pending, `limit` of them come to run together.
C21_StartsWhileBelowLimit ==
  (mainPc \in {"start", "await", "check", "sleep"} /\ running < limit /\ index < total) =>
    ENABLED (MainCallStartNext \/ FrameContinue \/ FrameLoopBack \/ MainPoll)

\* C22: runWithConcurrencyControl has not returned while a submitted task is
\* unstarted or running: when it returns, completed = total, running = 0 and
\* index = total.
C22_ReturnsOnlyWhenAllDone ==
  mainPc = "returned" =>
    /\ completed = total
    /\ running = 0
    /\ index = total
    /\ \A i \in Tasks : task[i] \in {"resolved", "rejected"}

\* The scheduler returned from three tasks under limit 1, the second of
\* which threw.
C22_Witness ==
  /\ mainPc = "returned"
  /\ total = 3
  /\ limit = 1
  /\ task[2] = "rejected"
  /\ completed = 3

\* C30: onProgress is called once after each task completion, resolved or
\* rejected alike, with completed = 1, 2, ... in turn and never more than
\* total: `total` calls in all when the scheduler returns.
C30_ProgressCountsEveryCompletion ==
  /\ progress = [k \in 1..completed |-> k]
  /\ completed <= total
  /\ completed = Cardinality({i \in Tasks : results[i] # Hole})
  /\ mainPc = "returned" => Len(progress) = total

\* Three calls of onProgress, the first of them after a task that threw.
C30_Witness ==
  /\ progress = <<1, 2, 3>>
  /\ task[1] = "rejected"
  /\ task[3] = "resolved"

\* ---- streaming handler, the closed flag and the order of the events
\* The pool tasks whose search is in flight after this step and was not before.
PoolSearchInvoked ==
  \/ \E j \in EmbyIds : embyStat[j] # "running" /\ embyStat'[j] = "running"
  \/ \E j \in ApiIds : apiStat[j] # "running" /\ apiStat'[j] = "running"

\* C23: once streamClosed is set, by cancel() or by a failed write, no task
\* of a pool that had not been started has its backend search invoked.
C23_NoPoolSearchAfterClose ==
  [][streamClosed => ~PoolSearchInvoked]_vars

\* The consumer left before the deadline and every API task of the request
\* ended without a search.
C23_Witness ==
  /\ streamClosed
  /\ ~timeExceeded
  /\ nApi >= 2
  /\ \A j \in ApiIds : apiStat[j] = "settled"
  /\ completedSources = 0
  /\ Len(events) = 1

\* The search of source src ends in this step.
SourceSettles(src) ==
  \/ \E j \in ApiIds :
       src = <<"api", j>> /\ apiStat[j] # "settled" /\ apiStat'[j] = "settled"
  \/ \E j \in EmbyIds :
       /\ src = EmbySourceValue(j, embySources)
       /\ embyStat[j] # "settled" /\ embyStat'[j] = "settled"
  \/ src = <<"openlist">> /\ olStat = "running" /\ olStat' = "settled"

EventsWritten == {p \in 1..Len(events') : p > Len(events)}

\* C24: the source_result or source_error of a source is written in the very
\* step in which that source's own search completes, whatever else is still
\* running: events are appended in the order of completion.
C24_EventWrittenOnCompletion ==
  [][/\ Len(events') >= Len(events) /\ SubSeq(events', 1, Len(events)) = events
     /\ \A p \in EventsWritten :
          events'[p].type \in {"source_result", "source_error"}
            => SourceSettles(events'[p].source)
     /\ \A j \in ApiIds :
          (apiStat[j] = "running" /\ apiStat'[j] = "settled" /\ ~streamClosed)
            => \E p \in EventsWritten : events'[p].source = <<"api", j>>
     /\ \A j \in EmbyIds :
          (embyStat[j] = "running" /\ embyStat'[j] = "settled" /\ ~streamClosed)
            => \E p \in EventsWritten : events'[p].source = EmbySourceValue(j, embySources)
    ]_vars

\* The event of the second API site is on the stream while the search of the
\* first, submitted before it, is still running.
C24_Witness ==
  /\ nApi >= 2
  /\ Len(events) = 2
  /\ events[2] = ResultEvent(<<"api", 2>>, events[2].n)
  /\ apiStat[1] = "running"

\* ---- GET, a failing enumeration of the media servers
\* C25: when embyManager.getAllClients() throws, neither handler gives the
\* request up: no exception leaves GET, and the task list or the stream for
\* the other sources is still made.
C25_EmbyEnumerationFailureDegrades ==
  (principal = "user" /\ query = "text" /\ throwsAt = "getAllClients") =>
    /\ reqPc # "threw"
    /\ reqPc \in {"try", "done"} => (InWork("tasks") \/ InWork("stream"))

\* ---- batch handler, one task per source
\* C26: the batch handler searches exactly one task per enumerated source,
\* whatever their number: one per API site available to the principal, one
\* per Emby instance, and one OpenList task iff Enabled, URL, Username and
\* Password are all set.
C26_OneTaskPerSource ==
  fanPc = "search" =>
    /\ SearchedOfKind("api") = availableSites
    /\ SearchedOfKind("emby") = embyInstances
    /\ SearchedOfKind("openlist") =
         (IF \A f \in OpenListFields : openListConfig[f] THEN 1 ELSE 0)
    /\ Len(searchTasks) = SearchedOfKind("api") + SearchedOfKind("emby")
                            + SearchedOfKind("openlist")

\* ---- what one source may contribute
\* The items of source i in the answer: in its source_result event (stream)
\* or in the results of the response (batch).
Contribution(i) ==
  IF variant = "stream" THEN Len(allSourceResults[i].results)
  ELSE Cardinality({p \in 1..Len(merged) : merged[p].source = allSourceResults[i].source})

\* C27: whatever number of items its backend sends, a content-API source
\* contributes at most MAX_RESULTS_PER_SOURCE items to the batch response
\* and to its source_result event.
C27_PerSourceCap ==
  fanPc = "done" =>
    \A i \in 1..Len(searchTasks) :
      searchTasks[i] = "api" =>
        Contribution(i) <= (IF variant = "stream" THEN WS_MAX_RESULTS_PER_SOURCE
                            ELSE MAX_RESULTS_PER_SOURCE)

\* ---- the content filter
\* The items of the answer: of all source_result events (stream) or of the
\* response (batch).
AnswerItems == IF variant = "stream" THEN Flatten(allSourceResults) ELSE merged

\* The items source i hands on when nothing is filtered.
Unfiltered(i) ==
  IF variant = "stream" THEN Min(pages[i], WS_MAX_RESULTS_PER_SOURCE)
  ELSE IF searchTasks[i] = "openlist" \/ (variant = "allSettled" /\ searchTasks[i] = "emby")
  THEN Min(pages[i], MAX_RESULTS_PER_SOURCE)
  ELSE pages[i]

\* The sources whose results reached the merger.
Collected ==
  {i \in 1..Len(searchTasks) :
     variant = "allSettled" => GroupOf(allSourceResults[i]) <= collected}

RECURSIVE SumUnfiltered(_)
SumUnfiltered(n) ==
  IF n = 0 THEN 0
  ELSE SumUnfiltered(n - 1) + (IF n \in Collected THEN Unfiltered(n) ELSE 0)

\* C28: unless DisableYellowFilter is set, no item whose type_name has a
\* blocked word is in the batch response or in a source_result event; when
\* it is set, the filter removes nothing.
C28_BlockedItemsFiltered ==
  fanPc = "done" =>
    /\ ~disableYellowFilter => \A p \in 1..Len(AnswerItems) : ~AnswerItems[p].yellow
    /\ disableYellowFilter =>
         Len(AnswerItems) = IF variant = "allSettled"
                            THEN Min(SumUnfiltered(Len(searchTasks)), TotalCap)
                            ELSE SumUnfiltered(Len(searchTasks))

\* With the filter on, a content API sent clean and blocked items next to
\* another source; the clean ones are in the answer.
C28_Witness ==
  /\ fanPc = "done"
  /\ ~disableYellowFilter
  /\ Len(searchTasks) = 2
  /\ searchTasks[2] = "api"
  /\ pages[1] = MaxItems
  /\ pages[2] = MaxItems
  /\ \E p \in 1..Len(AnswerItems) : AnswerItems[p].source = <<"api", 1>>
  /\ Len(AnswerItems) < 2 * MaxItems

\* ---- the merger keeps what the sources sent
\* C29: the batch response has every item of every source batch that passes
\* the filter, as often as the source sent it and in the order the source
\* sent it, and nothing else. (The batches are those that reached the merger
\* before the deadline.)
C29_MergerKeepsEveryItem ==
  (fanPc = "done" /\ variant # "stream" /\ collected = 3) =>
    /\ \A i \in 1..Len(searchTasks) :
         SelectSeq(merged, LAMBDA r : r.source = allSourceResults[i].source)
           = YellowFilter(allSourceResults[i].results)
    /\ \A p \in 1..Len(merged) :
         \E i \in 1..Len(searchTasks) : merged[p].source = allSourceResults[i].source

\* ---- runWithConcurrencyControl, what it returns
\* What the tasks 1..n that resolved resolved with, in the order of submission.
RECURSIVE ResolvedValues(_)
ResolvedValues(n) ==
  IF n = 0 THEN <<>>
  ELSE IF task[n] = "resolved" THEN Append(ResolvedValues(n - 1), taskValue[n])
  ELSE ResolvedValues(n - 1)

\* C31: runWithConcurrencyControl returns the results of the tasks that
\* resolved, in the order the tasks were submitted, and nothing for a task that
\* threw: the list has one entry per resolved task.
C31_ResultsInSubmissionOrder ==
  mainPc = "returned" =>
    /\ returned = ResolvedValues(total)
    /\ Len(returned) = Cardinality({i \in Tasks : task[i] = "resolved"})
    /\ \A p \in 1..Len(returned) : returned[p] \notin {Undefined, Hole}

\* The scheduler returned two results from three tasks, the one in the middle
\* having thrown.
C31_Witness ==
  /\ mainPc = "returned"
  /\ total = 3
  /\ task = <<"resolved", "rejected", "resolved">>
  /\ returned = <<taskValue[1], taskValue[3]>>
  /\ Len(returned) = 2

\* ---- streaming handler, the counters
\* The sources whose task, once begun, comes to its end in this step: a search
\* that was in flight settles, or an API task throws at line 344 before it
\* searches. A pool task that line 145 ends before it begins is not among them.
TaskEnds ==
  {<<"api", j>> : j \in {k \in ApiIds :
      /\ apiStat'[k] = "settled"
      /\ \/ apiStat[k] = "running"
         \/ apiStat[k] = "queued" /\ ~SkipTask(streamClosed, timeExceeded)}}
    \cup {<<"emby", j>> : j \in {k \in EmbyIds :
             embyStat[k] = "running" /\ embyStat'[k] = "settled"}}
    \cup (IF olStat = "running" /\ olStat' = "settled" THEN {<<"openlist">>} ELSE {})

\* C32: completedSources moves by one exactly in the step in which the task of
\* a launched source ends, be it with results, with an exception or with a
\* timeout, and in no other step; so 0 <= completedSources <= totalSources
\* in every reachable state.
C32_CompletedCountsEachSourceOnce ==
  /\ [](0 <= completedSources /\ completedSources <= totalSources)
  /\ [][completedSources' = completedSources + Cardinality(TaskEnds)]_vars

\* Three sources of three kinds were counted: one that answered, one that
\* failed or timed out and one in between.
C32_Witness ==
  /\ totalSources = 3
  /\ completedSources = 3
  /\ nApi = 1 /\ hasOpenList /\ embySources = 1
  /\ failedSources # {}
  /\ failedSources # StreamSources

\* The items carried by the source_result events among the first k events.
RECURSIVE ItemsWritten(_)
ItemsWritten(k) ==
  IF k = 0 THEN 0
  ELSE ItemsWritten(k - 1)
         + (IF events[k].type = "source_result" THEN events[k].n ELSE 0)

\* C33: the totalResults of a complete event is the number of items carried
\* by the source_result events written before it on the same stream.
C33_TotalResultsMatchesEvents ==
  \A p \in 1..Len(events) :
    events[p].type = "complete" => events[p].n = ItemsWritten(p - 1)

\* A complete event that totals the items of an Emby source and of an API
\* site, written after a third source had failed.
C33_Witness ==
  /\ Len(events) = 5
  /\ events[5].type = "complete"
  /\ events[5].n >= 3
  /\ \E p, q \in 2..4 :
       /\ events[p].type = "source_result" /\ events[p].source[1] = "emby" /\ events[p].n >= 1
       /\ events[q].type = "source_result" /\ events[q].source[1] = "api" /\ events[q].n >= 1
  /\ \E p \in 2..4 : events[p].n = 0

\* ---- batch handler, the source key of a media-server instance
EmbyTasksDone == {i \in Tasks : kind[i] = "emby" /\ task[i] = "resolved"}

\* C34: the batch an Emby task returns, with results or after a failure,
\* carries `emby` when one instance is configured and `emby_<instance key>`
\* when several are, so the batches of two instances never share a source key.
C34_EmbySourceKeyPerInstance ==
  mode = "GET" =>
    /\ \A i \in EmbyTasksDone :
         taskValue[i].source = EmbySourceValue(SrcIdx(i), NumOfKind("emby"))
    /\ \A i, j \in EmbyTasksDone :
         i # j => taskValue[i].source # taskValue[j].source

\* ---- the scan of the OpenList index
\* C35: in either batch snapshot and in the streaming handler the scan of the
\* OpenList index is over as soon as the results have reached the per-source
\* cap, and it never tests more than MAX_FOLDERS_TO_SEARCH entries, however
\* many the index has.
C35_ScanBounded ==
  scanPc # "off" =>
    /\ scanResults <= ResultCap(variant)
    /\ scanResults >= ResultCap(variant) => scanPc = "returned"
    /\ examined <= MAX_FOLDERS_TO_SEARCH

====
